---- MODULE Spec2Model ----
(***************************************************************************)
(* Plate: the object lifetimes and the frame synchronisation of the        *)
(* example programs (examples/texture.rs, examples/uniform_buffer.rs)      *)
(* together with Instance (plate/src/instance.rs) and Surface              *)
(* (src/surface.rs).                                                       *)
(*                                                                         *)
(* One CPU thread runs main: it builds the objects, then the event loop    *)
(* calls the closure once per event.  The GPU queue and the presentation   *)
(* engine run asynchronously.  Fence, Semaphore, Swapchain, Device and the *)
(* command buffer are used by the examples but defined outside the given   *)
(* sources; their behaviour follows the design document (spec.md).         *)
(***************************************************************************)
EXTENDS Integers, Sequences, FiniteSets, TLC

\* ------------------------------------------------------------------ bounds
MaxFrames == 3
MaxResizes == 1
NumImages == 2

\* ---------------------------------------------------------------- universe
ImageIds == 0 .. (NumImages - 1)

\* The objects the event-loop closure captures by move (the names used in
\* its body), grouped: sync = fence, acquire_sem, present_sem;
\* resources = pipeline, vert_buffer, index_buffer, descriptor_set, ubo.
Captured == {"swapchain", "cmd_buffer", "resources", "sync"}

\* The device-owning objects main keeps as locals and never hands to the
\* closure: set_layout, cmd_pool, descriptor_pool (one group).
MainLocals == {"pools"}

AllObjects == Captured \cup MainLocals

NativeHandles == {"instance", "messenger", "surface", "device"}

VARIABLES
    pc,            \* position of the CPU thread
    exitCause,     \* "none" | "setup_error" | "panic_.." | "LoopDestroyed"
    exitRequested, \* control_flow = Exit has been set
    native,        \* NativeHandles -> "none" | "alive" | "destroyed"
    destroyLog,    \* the native handles in the order they were destroyed
    todo,          \* destructor calls still to run, in order
    alive,         \* the device-dependent objects now alive
    fence,         \* [signaled]
    sem,           \* semaphore name -> [signaled, waits]
    images,        \* image index -> [state, acq, rendered]
    chainGen,      \* how many times the swapchain was recreated
    queue,         \* submissions on the graphics queue, oldest first
    presentQ,      \* present requests not yet taken by the engine
    cur,           \* the local i of the RedrawRequested handler
    cmdState,      \* recording state of cmd_buffer
    frames,        \* RedrawRequested events handled so far
    chain,         \* the swapchain's parts: [images, framebuffers, imagesGen, framebuffersGen]
    resetCount,    \* fence.reset() calls since the last fence.wait() returned
    example,       \* which example program runs: "texture" | "uniform_buffer"
    ubo,           \* the uniform buffer: [created, props, mapped]
    upload,        \* the latest staged upload: [target, staging, copy]
    inst,          \* a call of Instance::new with given parameters
    pool           \* a descriptor pool and the sets allocated from it

vars == <<pc, exitCause, exitRequested, native, destroyLog, todo, alive,
          fence, sem, images, chainGen, queue, presentQ, cur, cmdState,
          frames, chain, resetCount, example, ubo, upload, inst, pool>>

lifeVars == <<native, destroyLog, todo, alive>>
gpuVars == <<fence, sem, images, chainGen, queue, presentQ, cmdState>>
loopVars == <<cur, frames, exitRequested>>
setupVars == <<example, ubo, upload>>
unitVars == <<inst, pool>>
mainVars == <<pc, exitCause, exitRequested, native, destroyLog, todo, alive,
              fence, sem, images, chainGen, queue, presentQ, cur, cmdState,
              frames, chain, resetCount, example, ubo, upload>>

\* ------------------------------------------------------------ destructors

\* Variant: the instance handle destroyed before its messenger.
InstanceDropSwapped == <<"instance", "messenger">>

\* impl Drop for Instance: the messenger, then the instance handle.
InstanceDrop == <<"messenger", "instance">>

\* impl Drop for Surface.
SurfaceDrop == <<"surface">>

\* Variant: the device's parts dropped with the instance before the surface.
DeviceDropInstanceFirst ==
    <<"device", "messenger", "instance", "surface">>

\* Device owns the Instance and the Surface moved into it: its own destructor
\* destroys the logical device, then its parts go, the instance last.
DeviceDrop == <<"device">> \o SurfaceDrop \o InstanceDrop

\* Device::new failing: its parameters (instance, surface) are dropped in
\* reverse order of declaration.
DeviceNewErrDrop == SurfaceDrop \o InstanceDrop

\* main returning early with `?` drops its locals in reverse order of
\* declaration; the device (declared first of them) goes last.
MainErrDrop == <<"resources", "cmd_buffer", "pools", "swapchain">>
               \o DeviceDrop

\* ------------------------------------------------------------------ Init
FreshImage == [state |-> "free", acq |-> FALSE, rendered |-> FALSE]

NoSem == [signaled |-> FALSE, waits |-> 0]

\* The two example programs.
Examples == {"texture", "uniform_buffer"}

\* No swapchain yet.
NoChain == [images |-> 0, framebuffers |-> 0, imagesGen |-> 0,
            framebuffersGen |-> 0]

\* No uniform buffer yet.
NoBuffer == [created |-> FALSE, props |-> {}, mapped |-> FALSE]

\* No staged upload in progress, none done.
NoUpload == [target |-> "none", staging |-> "none", copy |-> "none"]

\* No call of Instance::new is being followed.
NoCall == [at |-> "none"]

\* No descriptor pool is being followed.
NoPool == [at |-> "none"]

Init ==
    /\ pc = "Instance_new"
    /\ exitCause = "none"
    /\ exitRequested = FALSE
    /\ native = [h \in NativeHandles |-> "none"]
    /\ destroyLog = <<>>
    /\ todo = <<>>
    /\ alive = {}
    /\ fence = [signaled |-> FALSE]
    /\ sem = [s \in {"acquire_sem", "present_sem"} |-> NoSem]
    /\ images = [i \in ImageIds |-> FreshImage]
    /\ chainGen = 0
    /\ queue = <<>>
    /\ presentQ = <<>>
    /\ cur = 0
    /\ cmdState = "initial"
    /\ frames = 0
    /\ chain = NoChain
    /\ resetCount = 0
    /\ example \in Examples
    /\ ubo = NoBuffer
    /\ upload = NoUpload
    /\ inst = NoCall
    /\ pool = NoPool

\* ------------------------------------------------------ destructor engine

IsNative(x) == x \in NativeHandles

\* One destructor call: the head of todo.  A native handle is destroyed and
\* logged; a dependent object leaves alive.
Destroy ==
    /\ todo # <<>>
    /\ LET x == Head(todo) IN
         IF IsNative(x)
         THEN /\ native' = [native EXCEPT ![x] = "destroyed"]
              /\ destroyLog' = Append(destroyLog, x)
              /\ alive' = alive
         ELSE /\ alive' = alive \ {x}
              /\ UNCHANGED <<native, destroyLog>>
    /\ todo' = Tail(todo)
    /\ pc' = IF Len(todo) = 1 /\ pc = "teardown" THEN "exited" ELSE pc
    /\ UNCHANGED <<exitCause, gpuVars, loopVars>>
    /\ UNCHANGED <<chain, resetCount, setupVars, unitVars>>

\* ----------------------------------------------------------------- setup

\* Instance::new: create_instance, then create_debug_utils_messenger; each
\* may fail and `?` returns at once.
InstanceNewOutcomes == {"ok", "create_instance_err", "messenger_err"}

InstanceNew ==
    /\ pc = "Instance_new"
    /\ \E r \in InstanceNewOutcomes :
         /\ native' = [native EXCEPT
                !["instance"] = IF r = "create_instance_err" THEN "none" ELSE "alive",
                !["messenger"] = IF r = "ok" THEN "alive" ELSE "none"]
         /\ pc' = IF r = "ok" THEN "Surface_new" ELSE "exited"
         /\ exitCause' = IF r = "ok" THEN "none" ELSE "setup_error"
    /\ UNCHANGED <<destroyLog, todo, alive, gpuVars, loopVars>>
    /\ UNCHANGED <<chain, resetCount, setupVars, unitVars>>

\* Surface::new(&instance, &window)?: on failure main returns and drops its
\* only local so far, the instance.
SurfaceNew ==
    /\ pc = "Surface_new"
    /\ \E ok \in BOOLEAN :
         IF ok
         THEN /\ native' = [native EXCEPT !["surface"] = "alive"]
              /\ pc' = "Device_new"
              /\ UNCHANGED <<todo, exitCause>>
         ELSE /\ todo' = InstanceDrop
              /\ pc' = "teardown"
              /\ exitCause' = "setup_error"
              /\ UNCHANGED native
    /\ UNCHANGED <<destroyLog, alive, gpuVars, loopVars>>
    /\ UNCHANGED <<chain, resetCount, setupVars, unitVars>>

\* Device::new(instance, surface, ..)?: the instance and the surface move
\* into the device.
DeviceNew ==
    /\ pc = "Device_new"
    /\ \E ok \in BOOLEAN :
         IF ok
         THEN /\ native' = [native EXCEPT !["device"] = "alive"]
              /\ pc' = "setup_chain"
              /\ UNCHANGED <<todo, exitCause>>
         ELSE /\ todo' = DeviceNewErrDrop
              /\ pc' = "teardown"
              /\ exitCause' = "setup_error"
              /\ UNCHANGED native
    /\ UNCHANGED <<destroyLog, alive, gpuVars, loopVars>>
    /\ UNCHANGED <<chain, resetCount, setupVars, unitVars>>

\* Swapchain::new / Swapchain::recreate build a whole chain: n images, one
\* view and one framebuffer per image, all of generation g.
NewChain(n, g) == [images |-> n, framebuffers |-> n, imagesGen |-> g,
                   framebuffersGen |-> g]

\* Swapchain::new .. alloc_cmd_buffer: the swapchain, the set layout, the
\* pipeline, the command pool and its command buffer.
SetupChain ==
    /\ pc = "setup_chain"
    /\ chain' = NewChain(NumImages, 0)
    /\ alive' = AllObjects \ {"sync"}
    /\ pc' = "upload_vertex"
    /\ UNCHANGED <<exitCause, native, destroyLog, todo, gpuVars, loopVars,
                   resetCount, setupVars, unitVars>>

\* A `?` of main on an Err: main returns, its locals are dropped.
MainReturnsErr ==
    /\ todo' = MainErrDrop
    /\ pc' = "teardown"
    /\ exitCause' = "setup_error"

\* ------------------------------------------------------------ staged uploads

\* The staged uploads of main, by position: VertexBuffer::new,
\* IndexBuffer::new, and in texture.rs Texture::new.
UploadPcs == {"upload_vertex", "upload_index", "upload_texture"}

UploadTarget ==
    CASE pc = "upload_vertex" -> "vert_buffer"
      [] pc = "upload_index" -> "index_buffer"
      [] pc = "upload_texture" -> "image"
      [] OTHER -> "none"

\* Where main goes on when the upload at pc has returned Ok.
AfterUpload ==
    CASE pc = "upload_vertex" -> "upload_index"
      [] pc = "upload_index" -> "ubo_new"
      [] OTHER -> "ubo_map"

\* The upload creates its staging resource and writes the host data.
UploadStage ==
    /\ pc \in UploadPcs
    /\ upload.target # UploadTarget
    /\ upload' = [target |-> UploadTarget, staging |-> "alive",
                  copy |-> "none"]
    /\ UNCHANGED <<pc, exitCause, lifeVars, gpuVars, loopVars, chain,
                   resetCount, example, ubo, unitVars>>

\* It records the copy and submits it; on a driver error the upload gives
\* up its staging resource and returns Err, which main's `?` returns.
UploadSubmit ==
    /\ pc \in UploadPcs
    /\ upload.target = UploadTarget
    /\ upload.staging = "alive"
    /\ upload.copy = "none"
    /\ \/ /\ upload' = [upload EXCEPT !.copy = "submitted"]
          /\ UNCHANGED <<pc, exitCause, todo>>
       \/ /\ upload' = [upload EXCEPT !.staging = "destroyed"]
          /\ MainReturnsErr
    /\ UNCHANGED <<native, destroyLog, alive, gpuVars, loopVars, chain,
                   resetCount, example, ubo, unitVars>>

\* GPU: the copy from the staging resource to the device-local one runs to
\* its end.
GpuCopy ==
    /\ upload.copy = "submitted"
    /\ upload' = [upload EXCEPT !.copy = "complete"]
    /\ UNCHANGED <<pc, exitCause, lifeVars, gpuVars, loopVars, chain,
                   resetCount, example, ubo, unitVars>>

\* Variant: the upload does not wait for the copy.
UploadNoWait == upload.copy # "none"

\* The wait for completion of the submitted copy returns.
UploadWaitReturns == upload.copy = "complete"

\* After the wait the upload destroys the staging resource and returns.
UploadEnd ==
    /\ pc \in UploadPcs
    /\ upload.target = UploadTarget
    /\ upload.staging = "alive"
    /\ UploadWaitReturns
    /\ upload' = [upload EXCEPT !.staging = "destroyed"]
    /\ pc' = AfterUpload
    /\ UNCHANGED <<exitCause, lifeVars, gpuVars, loopVars, chain,
                   resetCount, example, ubo, unitVars>>

\* ------------------------------------------------------- the uniform buffer

\* The memory properties each example passes to Buffer::new for its ubo;
\* `|` of flags is the union of the flag sets.
UboProperties ==
    IF example = "texture"
    THEN {"HOST_VISIBLE"} \cup {"HOST_COHERENT"}
    ELSE {"HOST_VISIBLE"} \cup {"HOST_VISIBLE"}

\* let ubo = Buffer::new(&device, 1, UNIFORM_BUFFER, EXCLUSIVE, props)?
UboNew ==
    /\ pc = "ubo_new"
    /\ ubo' = [created |-> TRUE, props |-> UboProperties, mapped |-> FALSE]
    /\ pc' = IF example = "texture" THEN "upload_texture" ELSE "ubo_map"
    /\ UNCHANGED <<exitCause, lifeVars, gpuVars, loopVars, chain,
                   resetCount, example, upload, unitVars>>

\* let mut ubo = ubo.map()?: valid only for HOST_VISIBLE memory; Err makes
\* main return.
UboMap ==
    /\ pc = "ubo_map"
    /\ \/ /\ "HOST_VISIBLE" \in ubo.props
          /\ ubo' = [ubo EXCEPT !.mapped = TRUE]
          /\ pc' = "setup"
          /\ UNCHANGED <<exitCause, todo>>
       \/ /\ MainReturnsErr
          /\ UNCHANGED ubo
    /\ UNCHANGED <<native, destroyLog, alive, gpuVars, loopVars, chain,
                   resetCount, example, upload, unitVars>>

\* Variant: the fence created with empty flags.
FenceNewUnsignaled == FALSE

\* Fence::new(&device, FenceFlags::SIGNALED).
FenceNewSignaled == TRUE

\* The end of main before event_loop.run: fence and semaphores.  A failing
\* `?` (here: the last of them) returns from main and drops what exists.
Setup ==
    /\ pc = "setup"
    /\ \E ok \in BOOLEAN :
         IF ok
         THEN /\ alive' = AllObjects
              /\ fence' = [signaled |-> FenceNewSignaled]
              /\ pc' = "idle"
              /\ UNCHANGED <<todo, exitCause>>
         ELSE /\ alive' = alive
              /\ MainReturnsErr
              /\ UNCHANGED fence
    /\ UNCHANGED <<native, destroyLog, sem, images, chainGen, queue, presentQ,
                   cmdState, loopVars>>
    /\ UNCHANGED <<chain, resetCount, setupVars, unitVars>>


\* ------------------------------------------------- synchronisation objects

\* Fence::wait(): blocks the calling thread until the fence is signaled.
FenceWaitReturns(f) == f.signaled

\* Fence::wait with a timeout: Success when signaled, TimedOutError when
\* the timeout (0: at once) passes first.
FenceWaitTimeout0(f) == IF f.signaled THEN "Success" ELSE "TimedOutError"

\* Fence::reset(): the fence is unsignaled.
FenceResetValue(f) == [f EXCEPT !.signaled = FALSE]

\* A semaphore signal operation executing.
SemSignal(s) == [s EXCEPT !.signaled = TRUE]

\* A semaphore wait being enqueued, and a wait completing (which unsignals).
SemEnqueueWait(s) == [s EXCEPT !.waits = @ + 1]
SemWaitDone(s) == [signaled |-> FALSE,
                   waits |-> IF s.waits > 0 THEN s.waits - 1 ELSE 0]

\* Whether an operation waiting on semaphore w (or on none) may go on.
SemReady(w) == w = "none" \/ sem[w].signaled

\* The device is idle: no submission on the queue, no present request
\* waiting for its semaphore.
DeviceIdle == queue = <<>> /\ presentQ = <<>>

\* ------------------------------------------------------------- event loop

\* WindowEvent::CloseRequested: *control_flow = ControlFlow::Exit (which the
\* event loop keeps once set).
CloseRequested ==
    /\ pc = "idle"
    /\ ~exitRequested
    /\ exitRequested' = TRUE
    /\ UNCHANGED <<pc, exitCause, lifeVars, gpuVars, cur, frames>>
    /\ UNCHANGED <<chain, resetCount, setupVars, unitVars>>

\* Variant: recreate tears the old chain down without waiting.
RecreateNoWait == TRUE

\* Swapchain::recreate may tear the old chain down.
RecreateMayProceed == DeviceIdle

\* WindowEvent::Resized(_) => swapchain.recreate(&window).unwrap():
\* recreate waits for the work in flight, retires the old chain and builds
\* a whole new one.
ResizedDispatch ==
    /\ pc = "idle"
    /\ chainGen < MaxResizes
    /\ pc' = "recreate"
    /\ UNCHANGED <<exitCause, lifeVars, gpuVars, loopVars>>
    /\ UNCHANGED <<chain, resetCount, setupVars, unitVars>>

Recreate ==
    /\ pc = "recreate"
    /\ RecreateMayProceed
    /\ chainGen' = chainGen + 1
    /\ images' = [i \in ImageIds |-> FreshImage]
    /\ \E n \in 1 .. NumImages : chain' = NewChain(n, chainGen + 1)
    /\ pc' = "idle"
    /\ UNCHANGED <<exitCause, lifeVars, fence, sem, queue, presentQ, cmdState,
                   loopVars>>
    /\ UNCHANGED <<resetCount, setupVars, unitVars>>

\* Event::RedrawRequested: the handler starts (rot += 0.01).
RedrawRequested ==
    /\ pc = "idle"
    /\ frames < MaxFrames
    /\ frames' = frames + 1
    /\ pc' = "wait"
    /\ UNCHANGED <<exitCause, lifeVars, gpuVars, cur, exitRequested>>
    /\ UNCHANGED <<chain, resetCount, setupVars, unitVars>>

\* Variant: the handler goes on without waiting for the fence.
FenceWaitNoBlock ==
    /\ pc = "wait"
    /\ pc' = "reset"
    /\ resetCount' = 0
    /\ UNCHANGED <<exitCause, lifeVars, gpuVars, loopVars>>
    /\ UNCHANGED <<chain, setupVars, unitVars>>

\* fence.wait().unwrap()
FenceWait ==
    /\ pc = "wait"
    /\ FenceWaitReturns(fence)
    /\ pc' = "reset"
    /\ resetCount' = 0
    /\ UNCHANGED <<exitCause, lifeVars, gpuVars, loopVars>>
    /\ UNCHANGED <<chain, setupVars, unitVars>>

\* Variant: the handler does not reset the fence.
FenceResetSkipped ==
    /\ pc = "reset"
    /\ pc' = "acquire"
    /\ UNCHANGED <<exitCause, lifeVars, gpuVars, loopVars>>
    /\ UNCHANGED <<chain, resetCount, setupVars, unitVars>>

\* fence.reset().unwrap()
FenceReset ==
    /\ pc = "reset"
    /\ fence' = FenceResetValue(fence)
    /\ resetCount' = resetCount + 1
    /\ pc' = "acquire"
    /\ UNCHANGED <<exitCause, lifeVars, sem, images, chainGen, queue, presentQ,
                   cmdState, loopVars>>
    /\ UNCHANGED <<chain, setupVars, unitVars>>

\* A panic inside the closure (a failing unwrap) unwinds: the closure and
\* what it captured are dropped, then main's own locals.
PanicAt(cause) ==
    /\ pc' = "drop_closure"
    /\ exitCause' = cause

Panic == PanicAt("panic_out_of_date")

\* What next_image(..).unwrap() does with Err(OutOfDate).
NextImageOutOfDate ==
    /\ Panic
    /\ UNCHANGED <<lifeVars, gpuVars, loopVars>>

\* let (i, _) = swapchain.next_image(&acquire_sem).unwrap(): an image the
\* engine does not hold is returned at once, acquire_sem is signaled when
\* the engine has let go of it; or the chain is out of date.
NextImage ==
    /\ pc = "acquire"
    /\ \/ \E i \in ImageIds :
            /\ i < chain.images
            /\ images[i].state = "free"
            /\ images' = [images EXCEPT ![i] = [state |-> "acquired",
                                                acq |-> FALSE,
                                                rendered |-> FALSE]]
            /\ cur' = i
            /\ pc' = "write"
            /\ UNCHANGED <<exitCause, lifeVars, fence, sem, chainGen, queue,
                           presentQ, cmdState, frames, exitRequested>>
       \/ NextImageOutOfDate
    /\ UNCHANGED <<chain, resetCount, setupVars, unitVars>>

\* ubo.write(&[Ubo { .. }]) through the mapped view.
UboWrite ==
    /\ pc = "write"
    /\ ubo.mapped
    /\ pc' = "record"
    /\ UNCHANGED <<exitCause, lifeVars, gpuVars, loopVars>>
    /\ UNCHANGED <<chain, resetCount, setupVars, unitVars>>

\* Variant: record leaves the buffer as it is when the closure unwinds.
RecordLeftOpen == "recording"

\* The state in which record leaves the buffer when it is left before a
\* successful end: recording is closed, the buffer holds nothing usable.
RecordAbandoned == "invalid"

\* Whether the closure holds an unwrap that can fail:
\* descriptor_set.bind(..).unwrap() in texture.rs, none in uniform_buffer.rs.
ClosureMayPanic == example = "texture"

\* cmd_buffer.record(.., || { .. }).unwrap(): record begins the buffer and
\* calls the closure; a driver error of begin comes back as Err, which the
\* unwrap turns into a panic.
Record ==
    /\ pc = "record"
    /\ \/ /\ cmdState' = "recording"
          /\ pc' = "record_closure"
          /\ UNCHANGED exitCause
       \/ /\ PanicAt("panic_record")
          /\ UNCHANGED cmdState
    /\ UNCHANGED <<lifeVars, fence, sem, images, chainGen, queue,
                   presentQ, loopVars>>
    /\ UNCHANGED <<chain, resetCount, setupVars, unitVars>>

\* The closure: begin_render_pass, pipeline.bind, vert/index bind,
\* descriptor_set.bind, draw_indexed, end_render_pass.  It runs to its end,
\* or the unwrap on descriptor_set.bind panics and unwinds through record.
RecordClosure ==
    /\ pc = "record_closure"
    /\ \/ /\ pc' = "record_end"
          /\ UNCHANGED <<exitCause, cmdState>>
       \/ /\ ClosureMayPanic
          /\ cmdState' = RecordAbandoned
          /\ PanicAt("panic_bind")
    /\ UNCHANGED <<lifeVars, fence, sem, images, chainGen, queue,
                   presentQ, loopVars>>
    /\ UNCHANGED <<chain, resetCount, setupVars, unitVars>>

\* record ends the buffer and returns; a driver error of end comes back as
\* Err and the unwrap panics.
RecordEnd ==
    /\ pc = "record_end"
    /\ \/ /\ cmdState' = "executable"
          /\ pc' = "submit"
          /\ UNCHANGED exitCause
       \/ /\ cmdState' = RecordAbandoned
          /\ PanicAt("panic_record")
    /\ UNCHANGED <<lifeVars, fence, sem, images, chainGen, queue,
                   presentQ, loopVars>>
    /\ UNCHANGED <<chain, resetCount, setupVars, unitVars>>

\* Variant: queue_submit given no semaphore to wait on.
SubmitWaitSemNone == "none"

\* Variant: the frame uses the index after the one next_image returned.
FrameIndexOffByOne == cur + 1

\* The image index the frame uses in begin_render_pass (recorded into the
\* submitted command buffer) and in present: the i next_image returned.
FrameIndex == cur

\* The arguments of device.queue_submit in the handler.
SubmitWaitSem == "acquire_sem"
SubmitSignalSem == "present_sem"
SubmitFence == "fence"

\* The resources the recorded commands read when they execute: the vertex
\* and index buffers bound in the closure and what descriptor_set binds
\* (the ubo, and in texture.rs the image).
SubmissionReads ==
    {"vert_buffer", "index_buffer", "ubo"}
        \cup (IF example = "texture" THEN {"image"} ELSE {})

\* device.queue_submit(queue, &cmd_buffer, COLOR_ATTACHMENT_OUTPUT,
\*                     wait, signal, fence).unwrap()
QueueSubmit ==
    /\ pc = "submit"
    /\ queue' = Append(queue, [img |-> FrameIndex, gen |-> chainGen,
                               stage |-> "submitted",
                               wait |-> SubmitWaitSem,
                               signal |-> SubmitSignalSem,
                               fence |-> SubmitFence,
                               reads |-> SubmissionReads])
    /\ sem' = IF SubmitWaitSem = "none" THEN sem
              ELSE [sem EXCEPT ![SubmitWaitSem] = SemEnqueueWait(@)]
    /\ cmdState' = "pending"
    /\ pc' = "present"
    /\ UNCHANGED <<exitCause, lifeVars, fence, images, chainGen, presentQ,
                   loopVars>>
    /\ UNCHANGED <<chain, resetCount, setupVars, unitVars>>

\* The semaphore handed to swapchain.present.
PresentWaitSem == "present_sem"

\* What present(..).unwrap() does with Err(OutOfDate).
PresentOutOfDate ==
    /\ Panic
    /\ UNCHANGED <<lifeVars, gpuVars, loopVars>>

\* swapchain.present(i, &present_sem).unwrap(): the request is queued and
\* waits for present_sem; or the chain is out of date.
Present ==
    /\ pc = "present"
    /\ \/ /\ presentQ' = Append(presentQ, [img |-> FrameIndex,
                                           gen |-> chainGen,
                                           wait |-> PresentWaitSem])
          /\ sem' = IF PresentWaitSem = "none" THEN sem
                    ELSE [sem EXCEPT ![PresentWaitSem] = SemEnqueueWait(@)]
          /\ images' = IF FrameIndex \in ImageIds
                       THEN [images EXCEPT ![FrameIndex].state = "queued"]
                       ELSE images
          /\ pc' = "idle"
          /\ UNCHANGED <<exitCause, lifeVars, fence, chainGen, queue, cmdState,
                         loopVars>>
       \/ PresentOutOfDate
    /\ UNCHANGED <<chain, resetCount, setupVars, unitVars>>


\* -------------------------------------------------------------- the GPU

\* The oldest submission starts: the stages before the wait stage
\* (vertex input, vertex shader) need no semaphore.
GpuVertex ==
    /\ queue # <<>>
    /\ Head(queue).stage = "submitted"
    /\ queue' = [queue EXCEPT ![1].stage = "vertex"]
    /\ UNCHANGED <<pc, exitCause, lifeVars, fence, sem, images, chainGen,
                   presentQ, cmdState, loopVars>>
    /\ UNCHANGED <<chain, resetCount, setupVars, unitVars>>

\* COLOR_ATTACHMENT_OUTPUT starts once the wait semaphore is signaled; the
\* wait unsignals it.
GpuColorOutput ==
    /\ queue # <<>>
    /\ Head(queue).stage = "vertex"
    /\ SemReady(Head(queue).wait)
    /\ queue' = [queue EXCEPT ![1].stage = "color"]
    /\ sem' = IF Head(queue).wait = "none" THEN sem
              ELSE [sem EXCEPT ![Head(queue).wait] = SemWaitDone(@)]
    /\ UNCHANGED <<pc, exitCause, lifeVars, fence, images, chainGen, presentQ,
                   cmdState, loopVars>>
    /\ UNCHANGED <<chain, resetCount, setupVars, unitVars>>

\* The submission completes: its signal semaphore and its fence are
\* signaled, the command buffer is no longer pending.
GpuFinish ==
    /\ queue # <<>>
    /\ Head(queue).stage = "color"
    /\ LET s == Head(queue) IN
         /\ sem' = IF s.signal = "none" THEN sem
                   ELSE [sem EXCEPT ![s.signal] = SemSignal(@)]
         /\ fence' = IF s.fence = "none" THEN fence
                     ELSE [fence EXCEPT !.signaled = TRUE]
         /\ images' = IF s.gen = chainGen /\ s.img \in ImageIds
                      THEN [images EXCEPT ![s.img].rendered = TRUE]
                      ELSE images
    /\ queue' = Tail(queue)
    /\ cmdState' = IF Len(queue) = 1 THEN "executable" ELSE cmdState
    /\ UNCHANGED <<pc, exitCause, lifeVars, chainGen, presentQ, loopVars>>
    /\ UNCHANGED <<chain, resetCount, setupVars, unitVars>>

\* ------------------------------------------------ the presentation engine

\* The engine lets go of an acquired image: the acquire semaphore is
\* signaled.
PeSignalAcquire ==
    /\ \E i \in ImageIds :
         /\ images[i].state # "free"
         /\ ~images[i].acq
         /\ images' = [images EXCEPT ![i].acq = TRUE]
    /\ sem' = [sem EXCEPT !["acquire_sem"] = SemSignal(@)]
    /\ UNCHANGED <<pc, exitCause, lifeVars, fence, chainGen, queue, presentQ,
                   cmdState, loopVars>>
    /\ UNCHANGED <<chain, resetCount, setupVars, unitVars>>

\* The oldest present request is taken once its semaphore is signaled.
PePresent ==
    /\ presentQ # <<>>
    /\ SemReady(Head(presentQ).wait)
    /\ LET p == Head(presentQ) IN
         /\ sem' = IF p.wait = "none" THEN sem
                   ELSE [sem EXCEPT ![p.wait] = SemWaitDone(@)]
         /\ images' = IF p.gen = chainGen /\ p.img \in ImageIds
                      THEN [images EXCEPT ![p.img].state = "presented"]
                      ELSE images
    /\ presentQ' = Tail(presentQ)
    /\ UNCHANGED <<pc, exitCause, lifeVars, fence, chainGen, queue, cmdState,
                   loopVars>>
    /\ UNCHANGED <<chain, resetCount, setupVars, unitVars>>

\* A presented image becomes available again.
PeRelease ==
    /\ \E i \in ImageIds :
         /\ images[i].state = "presented"
         /\ images' = [images EXCEPT ![i].state = "free"]
    /\ UNCHANGED <<pc, exitCause, lifeVars, fence, sem, chainGen, queue,
                   presentQ, cmdState, loopVars>>
    /\ UNCHANGED <<chain, resetCount, setupVars, unitVars>>

\* -------------------------------------------------------------- teardown

\* Event::LoopDestroyed is delivered once Exit is set.
LoopDestroyed ==
    /\ pc = "idle"
    /\ exitRequested
    /\ pc' = "wait_idle"
    /\ exitCause' = "LoopDestroyed"
    /\ UNCHANGED <<lifeVars, gpuVars, loopVars>>
    /\ UNCHANGED <<chain, resetCount, setupVars, unitVars>>

\* Variant: the LoopDestroyed handler returns without the barrier.
WaitIdleSkipped ==
    /\ pc = "wait_idle"
    /\ pc' = "drop_closure"
    /\ UNCHANGED <<exitCause, lifeVars, gpuVars, loopVars>>
    /\ UNCHANGED <<chain, resetCount, setupVars, unitVars>>

\* device.wait_idle().unwrap(): blocks until all queued work is complete;
\* then the closure is dropped.
WaitIdle ==
    /\ pc = "wait_idle"
    /\ DeviceIdle
    /\ pc' = "drop_closure"
    /\ UNCHANGED <<exitCause, lifeVars, gpuVars, loopVars>>
    /\ UNCHANGED <<chain, resetCount, setupVars, unitVars>>

\* The closure's captured values are dropped, in no specified order.
DropCaptured ==
    /\ pc = "drop_closure"
    /\ \E o \in alive \cap Captured : alive' = alive \ {o}
    /\ UNCHANGED <<pc, exitCause, native, destroyLog, todo, gpuVars, loopVars>>
    /\ UNCHANGED <<chain, resetCount, setupVars, unitVars>>

\* After the closure: event_loop.run never returns, the process exits and
\* main's locals are not dropped; a panic goes on unwinding main, whose
\* locals hold the last references to the device.
ClosureDropped ==
    /\ pc = "drop_closure"
    /\ alive \cap Captured = {}
    /\ IF exitCause = "LoopDestroyed"
       THEN /\ pc' = "exited"
            /\ todo' = todo
       ELSE /\ pc' = "teardown"
            /\ todo' = <<"pools">> \o DeviceDrop
    /\ UNCHANGED <<exitCause, native, destroyLog, alive, gpuVars, loopVars>>
    /\ UNCHANGED <<chain, resetCount, setupVars, unitVars>>

\* ------------------------------------------------------------------ Next
Next ==
    \/ InstanceNew
    \/ SurfaceNew
    \/ DeviceNew
    \/ SetupChain
    \/ UploadStage
    \/ UploadSubmit
    \/ GpuCopy
    \/ UploadEnd
    \/ UboNew
    \/ UboMap
    \/ Setup
    \/ Destroy
    \/ CloseRequested
    \/ ResizedDispatch
    \/ Recreate
    \/ RedrawRequested
    \/ FenceWait
    \/ FenceReset
    \/ NextImage
    \/ UboWrite
    \/ Record
    \/ RecordClosure
    \/ RecordEnd
    \/ QueueSubmit
    \/ Present
    \/ GpuVertex
    \/ GpuColorOutput
    \/ GpuFinish
    \/ PeSignalAcquire
    \/ PePresent
    \/ PeRelease
    \/ LoopDestroyed
    \/ WaitIdle
    \/ DropCaptured
    \/ ClosureDropped

Spec == Init /\ [][Next]_vars


\* ================================================================ claims

\* Submissions not yet complete on the GPU.
InFlight == Len(queue)

\* C1: cmd_buffer.record is never started while an earlier queue_submit of
\* the command buffer is unfinished on the GPU, and at most one frame is
\* submitted-but-not-fence-confirmed at any moment.
C1_OneFrameInFlight ==
    /\ InFlight <= 1
    /\ pc = "record" => InFlight = 0
    /\ cmdState = "pending" <=> InFlight > 0

\* A later frame is about to record after an earlier one was submitted.
C1_Witness == pc = "record" /\ frames >= 2 /\ cmdState = "executable"

\* C2: the GPU starts a frame's colour-attachment output only after the
\* acquisition of its image has signaled the acquire semaphore, and the
\* presentation of an image starts only after the submission that renders
\* it has finished and signaled the present semaphore.
C2_AcquireSubmitPresentOrder ==
    /\ \A k \in 1 .. Len(queue) :
         queue[k].stage = "color" => images[queue[k].img].acq
    /\ \A i \in ImageIds :
         images[i].state = "presented" => images[i].acq /\ images[i].rendered

\* An image of the second frame is on screen while the third is rendered.
C2_Witness ==
    /\ frames >= 2
    /\ \E i \in ImageIds : images[i].state = "presented"
    /\ \E k \in 1 .. Len(queue) : queue[k].stage = "color"

\* C3: no semaphore is handed to a new signal operation (next_image for
\* acquire_sem, queue_submit for present_sem) while a wait on it that an
\* earlier frame enqueued is still pending.
C3_NoSemaphoreReuseBeforeWaitDone ==
    [][ /\ (pc = "acquire" /\ pc' = "write") => sem["acquire_sem"].waits = 0
        /\ (pc = "submit" /\ pc' = "present") => sem["present_sem"].waits = 0
      ]_vars

\* C4: an out-of-date swapchain reported by next_image or present does not
\* abort the render loop (the loop recreates the chain and goes on).
C4_OutOfDateDoesNotAbort == exitCause # "panic_out_of_date"


\* The GPU works off what was submitted, the engine signals what was
\* acquired, and a thread whose wait can return goes on.
FairSpec ==
    /\ Spec
    /\ WF_vars(GpuVertex)
    /\ WF_vars(GpuColorOutput)
    /\ WF_vars(GpuFinish)
    /\ WF_vars(PeSignalAcquire)
    /\ WF_vars(FenceWait)

\* The loop is blocked in fence.wait() on an unsignaled fence.
BlockedInWait == pc = "wait" /\ ~fence.signaled

\* Some submission on the queue will signal the fence.
FencePending == \E k \in 1 .. Len(queue) : queue[k].fence = "fence"

\* C5: the first fence.wait() returns with no submission made (the fence
\* is created signaled); the loop never waits on an unsignaled fence that
\* no pending submission will signal; and, submissions completing, every
\* fence.wait() returns.
C5_FenceWaitReturns ==
    /\ []((pc = "wait" /\ frames = 1) => (fence.signaled /\ queue = <<>>))
    /\ [](BlockedInWait => FencePending)
    /\ (pc = "wait") ~> (pc = "reset")

\* A later frame is blocked in wait while its predecessor still executes.
C5_Witness == BlockedInWait /\ frames >= 2 /\ FencePending

C8_WaitIdleBeforeDestroy ==
    /\ (exitCause = "LoopDestroyed" /\ alive # AllObjects) => DeviceIdle
    /\ pc = "wait_idle" => alive = AllObjects
    /\ native["device"] = "destroyed" => alive = {}

\* Objects are being dropped after LoopDestroyed, frames having been drawn.
C8_Witness ==
    exitCause = "LoopDestroyed" /\ alive # AllObjects /\ frames >= 2

\* How often handle h was destroyed.
Destroyed(h) == Cardinality({k \in 1 .. Len(destroyLog) : destroyLog[k] = h})

\* Position of the first destruction of h in destroyLog (0: none).
FirstAt(h) ==
    IF Destroyed(h) = 0 THEN 0
    ELSE CHOOSE k \in 1 .. Len(destroyLog) :
           /\ destroyLog[k] = h
           /\ \A j \in 1 .. (k - 1) : destroyLog[j] # h

\* C9: dropping an Instance destroys the messenger strictly before the
\* instance handle, each exactly once; the instance handle is never
\* destroyed while its messenger is alive.
C9_MessengerBeforeInstance ==
    /\ Destroyed("messenger") <= 1
    /\ Destroyed("instance") <= 1
    /\ native["instance"] = "destroyed" =>
         /\ native["messenger"] = "destroyed"
         /\ FirstAt("messenger") < FirstAt("instance")

\* An Instance has been dropped.
C9_Witness == native["instance"] = "destroyed" /\ Destroyed("messenger") = 1

FrameHoldsIndex == pc \in {"write", "record", "submit", "present"}

C14_MappedIsVisibleAndCoherent ==
    ubo.mapped => {"HOST_VISIBLE", "HOST_COHERENT"} \subseteq ubo.props

\* The handler is between fence.reset() and queue_submit.
ResetToSubmit ==
    pc \in {"acquire", "write", "record", "record_closure", "record_end",
            "submit"}

\* C18: from the return of fence.reset() up to queue_submit the fence has
\* been reset exactly once since fence.wait() returned, so the reset comes
\* before the command buffer is re-recorded; when queue_submit is called
\* the fence it passes is unsignaled and no submission still pending on the
\* queue carries it.
C18_FenceResetOncePerFrame ==
    /\ ResetToSubmit => resetCount = 1
    /\ pc = "submit" =>
          /\ ~fence.signaled
          /\ \A k \in 1 .. Len(queue) : queue[k].fence # SubmitFence

\* A later frame reaches queue_submit after an earlier one was submitted
\* with the same fence.
C18_Witness == pc = "submit" /\ frames >= 2 /\ resetCount = 1

\* An upload is between its call and its return.
UploadRunning == pc \in UploadPcs /\ upload.target = UploadTarget

InsideRecord == pc \in {"record_closure", "record_end"}

HostWritesUbo == pc = "write" /\ ubo.mapped

\* A submission that reads the ubo is on the queue, waiting or executing.
GpuUsesUbo == \E k \in 1 .. Len(queue) : "ubo" \in queue[k].reads

\* C21: while the handler is at ubo.write no submitted command buffer that
\* reads the uniform buffer is still unfinished on the GPU, whatever GPU and
\* presentation steps are interleaved: a host write never overlaps the use
\* of the buffer by an earlier frame.
C21_UboWriteNotDuringGpuUse == HostWritesUbo => ~GpuUsesUbo

\* The handler is at ubo.write in a later frame, after an earlier frame's
\* submission read the ubo and while that frame's present is still queued.
C21_Witness ==
    /\ HostWritesUbo
    /\ frames >= 2
    /\ presentQ # <<>>
    /\ cmdState = "executable"

(***************************************************************************)
(* DescriptorPool and DescriptorAllocator::allocate, on their own.         *)
(***************************************************************************)
MaxPoolSets == 3
MaxPoolCount == 2
MaxAllocCalls == MaxPoolSets + 1

DescriptorTypes == {"UNIFORM_BUFFER", "COMBINED_IMAGE_SAMPLER"}

\* The pools the examples create: sizes per type and the maximum set count.
ExamplePools ==
    {[sizes |-> [t \in DescriptorTypes |-> 1], maxSets |-> 2],
     [sizes |-> [t \in DescriptorTypes |->
                    IF t = "UNIFORM_BUFFER" THEN 1 ELSE 0], maxSets |-> 1]}

\* The bindings the examples accumulate before allocate: one descriptor of
\* a type per binding.
ExampleBindings ==
    {[t \in DescriptorTypes |-> 1],
     [t \in DescriptorTypes |-> IF t = "UNIFORM_BUFFER" THEN 1 ELSE 0]}

PoolChoices ==
    ExamplePools \cup
    [sizes : [DescriptorTypes -> 0 .. MaxPoolCount], maxSets : 1 .. MaxPoolSets]

Min(a, b) == IF a < b THEN a ELSE b

\* How many sets with bindings b a pool of sizes sz and set count n holds.
PoolCapacity(sz, n, b) ==
    LET perType(t) == IF b[t] = 0 THEN n ELSE sz[t] \div b[t]
    IN  Min(n, Min(perType("UNIFORM_BUFFER"),
                   perType("COMBINED_IMAGE_SAMPLER")))

\* Descriptors of type t that the sets of pool p hold.
RECURSIVE PoolUsed(_, _)
PoolUsed(sets, t) ==
    IF sets = <<>> THEN 0 ELSE Head(sets)[t] + PoolUsed(Tail(sets), t)

\* Variant: a pool that grows instead of failing.
PoolGrows(p, b) == TRUE

\* Whether pool p has room for one more set with bindings b.
PoolHasRoom(p, b) ==
    /\ Len(p.sets) < p.maxSets
    /\ \A t \in DescriptorTypes : PoolUsed(p.sets, t) + b[t] <= p.sizes[t]

\* DescriptorPool::new(&device, sizes, max_sets): a pre-sized pool.
PoolNew ==
    /\ pool.at = "none"
    /\ \E c \in PoolChoices, b \in ExampleBindings :
         pool' = [at |-> "open", sizes |-> c.sizes, maxSets |-> c.maxSets,
                  bindings |-> b, sets |-> <<>>, results |-> <<>>,
                  bound |-> 0]
    /\ UNCHANGED <<mainVars, inst>>

\* DescriptorAllocator .. .allocate(&set_layout, &descriptor_pool): one
\* step that both takes the set from the pool and writes its bindings, or
\* fails and changes nothing.
PoolAllocate ==
    /\ pool.at = "open"
    /\ Len(pool.results) < MaxAllocCalls
    /\ IF PoolHasRoom(pool, pool.bindings)
         THEN pool' = [pool EXCEPT !.sets = Append(@, pool.bindings),
                                   !.results = Append(@, "Ok")]
         ELSE pool' = [pool EXCEPT
                          !.results = Append(@, "PoolExhaustedError")]
    /\ UNCHANGED <<mainVars, inst>>

\* descriptor_set.bind: a set allocated earlier is used.
PoolBindSet ==
    /\ pool.at = "open"
    /\ \E k \in 1 .. Len(pool.sets) :
         /\ pool.sets[k] = pool.bindings
         /\ pool.bound # k
         /\ pool' = [pool EXCEPT !.bound = k]
    /\ UNCHANGED <<mainVars, inst>>

PoolNext == PoolNew \/ PoolAllocate \/ PoolBindSet

PoolSpec == Init /\ [][PoolNext]_vars

MaxExtra == 2

\* Names a caller may put into InstanceParameters: two plain names and one
\* with an interior nul byte.
NameChoices == {<<65>>, <<66>>, <<65, 0, 66>>}

\* "VK_LAYER_KHRONOS_validation", DebugUtils::name(), and the names
\* ash_window::enumerate_required_extensions yields, in short.
ValidationLayerName == <<86, 76>>
DebugUtilsName == <<68, 85>>
RequiredChoices == {<< <<83>> >>, << <<83>>, <<87>> >>}

\* What a read of freed memory may yield instead of the old bytes.
Garbage == <<255>>

SeqsUpTo(S, n) == UNION {[1 .. k -> S] : k \in 0 .. n}

ParamChoices ==
    [app_name : NameChoices, engine_name : NameChoices,
     extra_layers : SeqsUpTo(NameChoices, MaxExtra),
     extra_extensions : SeqsUpTo(NameChoices, MaxExtra)]

HasNul(str) == \E i \in 1 .. Len(str) : str[i] = 0

\* Variant: a conversion that does not look for nul bytes.
CStringNewUnchecked(str) == [ok |-> TRUE, bytes |-> Append(str, 0)]

\* ffi::CString::new(str): Err(NulError) on an interior nul byte, otherwise
\* the bytes with a nul terminator.
CStringNew(str) ==
    IF HasNul(str) THEN [ok |-> FALSE, bytes |-> <<>>]
    ELSE [ok |-> TRUE, bytes |-> Append(str, 0)]

\* The name a reader of a C string sees: the bytes before the first nul.
RECURSIVE CStrRead(_)
CStrRead(bytes) ==
    IF bytes = <<>> \/ Head(bytes) = 0 THEN <<>>
    ELSE <<Head(bytes)>> \o CStrRead(Tail(bytes))

\* .map(|l| CString::new(l)).collect::<Result<Vec<_>, _>>()
CollectCStrings(names) == [i \in 1 .. Len(names) |-> CStringNew(names[i])]

AllOk(results) == \A i \in 1 .. Len(results) : results[i].ok

\* A pointer: the allocation it points into (0: static data) and the bytes
\* that were there when it was taken.
StaticPtr(name) == [idx |-> 0, bytes |-> Append(name, 0)]

PtrLive(p) == p.idx = 0 \/ inst.heap[p.idx]

\* Pointers to n C strings allocated after the first `base` allocations.
HeapPtrs(base, cstrs) ==
    [i \in 1 .. Len(cstrs) |-> [idx |-> base + i, bytes |-> cstrs[i].bytes]]

NewCall(p) ==
    [at |-> "app_name", params |-> p, heap |-> <<>>, layers |-> <<>>,
     extensions |-> <<>>, required |-> <<>>, called |-> FALSE,
     seenLayers |-> <<>>, seenExtensions |-> <<>>, native |-> {},
     result |-> "none"]

\* `?` on an Err: Instance::new returns it; nothing it created is touched.
InstReturn(e) == inst' = [inst EXCEPT !.at = "returned", !.result = e]

\* Instance::new(&window, &params) is called.
InstCall ==
    /\ inst.at = "none"
    /\ \E p \in ParamChoices : inst' = NewCall(p)
    /\ UNCHANGED <<mainVars, pool>>

\* let app_name = CString::new(params.app_name.clone()).map_err(..)?
InstAppName ==
    /\ inst.at = "app_name"
    /\ LET r == CStringNew(inst.params.app_name) IN
         IF r.ok
         THEN inst' = [inst EXCEPT !.at = "engine_name",
                                   !.heap = Append(@, TRUE)]
         ELSE InstReturn("NulError")
    /\ UNCHANGED <<mainVars, pool>>

\* let engine_name = CString::new(params.engine_name.clone()).map_err(..)?
InstEngineName ==
    /\ inst.at = "engine_name"
    /\ LET r == CStringNew(inst.params.engine_name) IN
         IF r.ok
         THEN inst' = [inst EXCEPT !.at = "layers",
                                   !.heap = Append(@, TRUE)]
         ELSE InstReturn("NulError")
    /\ UNCHANGED <<mainVars, pool>>

\* let mut layers = vec![validation]; extra_layers pushed in order; each
\* made a CString (`?`); then `let layers` of pointers taken with .iter(),
\* which leaves the C strings allocated.
InstLayers ==
    /\ inst.at = "layers"
    /\ LET names == <<ValidationLayerName>> \o inst.params.extra_layers
           cstrs == CollectCStrings(names)
       IN  IF AllOk(cstrs)
           THEN inst' = [inst EXCEPT
                    !.at = "extensions",
                    !.heap = @ \o [i \in 1 .. Len(cstrs) |-> TRUE],
                    !.layers = HeapPtrs(Len(inst.heap), cstrs)]
           ELSE InstReturn("NulError")
    /\ UNCHANGED <<mainVars, pool>>

\* Whether an extra-extension C string is still allocated after the loop
\* that pushes its pointer: .into_iter().for_each(|extension| ..) moves each
\* CString into the closure, which drops it when it returns.
ExtraExtensionKept == FALSE

\* let mut extensions = enumerate_required_extensions(window)?.to_vec();
\* push DebugUtils::name(); extra_extensions made CStrings (`?`); their
\* pointers pushed.
InstExtensions ==
    /\ inst.at = "extensions"
    /\ \/ InstReturn("VkError")
       \/ \E req \in RequiredChoices :
            LET cstrs == CollectCStrings(inst.params.extra_extensions)
                fixed == [i \in 1 .. Len(req) |-> StaticPtr(req[i])]
                             \o <<StaticPtr(DebugUtilsName)>>
            IN  IF AllOk(cstrs)
                THEN inst' = [inst EXCEPT
                         !.at = "create",
                         !.required = req,
                         !.heap = @ \o [i \in 1 .. Len(cstrs) |->
                                           ExtraExtensionKept],
                         !.extensions =
                             fixed \o HeapPtrs(Len(inst.heap), cstrs)]
                ELSE InstReturn("NulError")
    /\ UNCHANGED <<mainVars, pool>>

\* The positions of ptrs whose allocation is gone.
Dangling(ptrs) == {i \in 1 .. Len(ptrs) : ~PtrLive(ptrs[i])}

\* The names a reader gets through ptrs when the reads through the
\* pointers at positions g yield garbage.
NamesRead(ptrs, g) ==
    [i \in 1 .. Len(ptrs) |->
        IF i \in g THEN Garbage ELSE CStrRead(ptrs[i].bytes)]

\* let instance = unsafe { entry.create_instance(&instance_info, None)? }:
\* the loader reads every name through its pointer.  A read through a
\* dangling pointer yields the old bytes, other bytes, or a fault.
InstCreate ==
    /\ inst.at = "create"
    /\ \/ \E gl \in SUBSET Dangling(inst.layers),
             ge \in SUBSET Dangling(inst.extensions),
             ok \in BOOLEAN :
            inst' = [inst EXCEPT
                !.called = TRUE,
                !.seenLayers = NamesRead(inst.layers, gl),
                !.seenExtensions = NamesRead(inst.extensions, ge),
                !.native = IF ok THEN {"instance"} ELSE {},
                !.at = IF ok THEN "messenger" ELSE "returned",
                !.result = IF ok THEN "none" ELSE "VkError"]
       \/ /\ Dangling(inst.layers) \cup Dangling(inst.extensions) # {}
          /\ inst' = [inst EXCEPT !.called = TRUE, !.at = "aborted",
                                   !.result = "abort"]
    /\ UNCHANGED <<mainVars, pool>>

\* let debug_messenger = unsafe { create_debug_utils_messenger(..)? };
\* Ok(Self { .. }).  On Err the `?` returns; `instance` is an ash::Instance,
\* which has no destructor.
InstMessenger ==
    /\ inst.at = "messenger"
    /\ \/ inst' = [inst EXCEPT !.native = @ \cup {"messenger"},
                                !.at = "returned", !.result = "Ok"]
       \/ InstReturn("VkError")
    /\ UNCHANGED <<mainVars, pool>>

InstanceNext ==
    \/ InstCall
    \/ InstAppName
    \/ InstEngineName
    \/ InstLayers
    \/ InstExtensions
    \/ InstCreate
    \/ InstMessenger

InstanceSpec == Init /\ [][InstanceNext]_vars

\* Some name of the parameters holds a nul byte.
ParamsHaveNul ==
    /\ inst.at # "none"
    /\ \/ HasNul(inst.params.app_name)
       \/ HasNul(inst.params.engine_name)
       \/ \E i \in 1 .. Len(inst.params.extra_layers) :
            HasNul(inst.params.extra_layers[i])
       \/ \E i \in 1 .. Len(inst.params.extra_extensions) :
            HasNul(inst.params.extra_extensions[i])

\* With a nul byte in a name, Instance::new never calls create_instance,
\* creates no native object and does not abort.
NulNeverReachesCreate ==
    ParamsHaveNul => /\ ~inst.called
                     /\ inst.native = {}
                     /\ inst.at # "aborted"

\* C15 (as stated): with a nul byte in app_name, engine_name, an extra
\* layer name or an extra extension name, Instance::new returns
\* Err(NulError), never aborts, never calls create_instance and creates no
\* native object.
C15_NulByteReturnsNulError ==
    /\ NulNeverReachesCreate
    /\ (ParamsHaveNul /\ inst.at = "returned") => inst.result = "NulError"

\* C15 (amended): with a nul byte in one of the names Instance::new returns
\* an Err, never aborts, never calls create_instance and creates no native
\* object; the Err is NulError, except that a failure of
\* enumerate_required_extensions, which comes before the extra extension
\* names are converted, is returned instead when only they hold the nul.
C15_NulByteReturnsErr ==
    /\ NulNeverReachesCreate
    /\ (ParamsHaveNul /\ inst.at = "returned") =>
          \/ inst.result = "NulError"
          \/ /\ inst.result = "VkError"
             /\ ~HasNul(inst.params.app_name)
             /\ ~HasNul(inst.params.engine_name)
             /\ \A i \in 1 .. Len(inst.params.extra_layers) :
                  ~HasNul(inst.params.extra_layers[i])

\* Instance::new returned NulError for a nul byte in the last extra
\* extension name, after everything before it was converted.
C15_Witness ==
    /\ inst.at = "returned"
    /\ inst.result = "NulError"
    /\ Len(inst.heap) >= 3
    /\ Len(inst.params.extra_extensions) = MaxExtra
    /\ HasNul(inst.params.extra_extensions[MaxExtra])

\* C17: create_instance is handed the layer names validation followed by
\* params.extra_layers in order, and the extension names required by the
\* window, then debug-utils, then params.extra_extensions in order.
C17_ListsHandedToCreate ==
    (inst.at # "none" /\ inst.called) =>
        /\ inst.seenLayers =
               <<ValidationLayerName>> \o inst.params.extra_layers
        /\ inst.seenExtensions =
               inst.required \o <<DebugUtilsName>>
                   \o inst.params.extra_extensions

\* C19: when Instance::new has returned an Err, no native object it
\* created is still alive.
C19_ErrLeavesNoNativeObject ==
    (inst.at = "returned" /\ inst.result \notin {"none", "Ok"}) =>
        inst.native = {}

\* C20: when create_instance is called, every layer-name and
\* extension-name pointer handed to it points to a C string that is still
\* allocated.
C20_NamePointersLive ==
    inst.at = "create" =>
        Dangling(inst.layers) \cup Dangling(inst.extensions) = {}

====
